---- MODULE Spec2Model ----
(***************************************************************************)
(* The room hub of main.py: the module-level dictionaries rooms_*, the     *)
(* websocket session handler websocket_endpoint and the moderation         *)
(* handlers new_room, chat_room, destroy_room, kick_user and ban_user.     *)
(* The handlers are asyncio coroutines: one action of this module is the   *)
(* code a handler runs between two awaits, so the interleavings of the     *)
(* model are the interleavings the event loop can produce.                 *)
(***************************************************************************)
EXTENDS Integers, Sequences, FiniteSets, TLC

\* ---------------------------------------------------------------- bounds
\* A run takes a bounded number of inputs from outside: a websocket
\* connecting, a payload or a binary frame arriving, a client closing, an HTTP
\* request. The steps the handlers take on their own are not counted.
\* Spec allows MaxOps inputs, SpecDeep one more. No run uses more
\* websockets or requests than it has inputs.
MaxOps == 3

MaxInputs == MaxOps + 1

Conns == 1..MaxInputs
Reqs == 1..MaxInputs

\* Two users (one can own the room, the other not) and one room id.
Users == 1..2
Rooms == 1..2

NoUser == 0     \* a missing or unknown session cookie
BadRoom == 0    \* a room id that uuid.UUID rejects

\* -------------------------------------------------------- close codes
CODE_NONE == 0
CODE_NORMAL == 1000
CODE_POLICY == 1008
CODE_ERROR == 1011
CODE_KICKED == 4000
CODE_BANNED == 4003
CODE_DELETED == 4100

\* HTTP statuses of the handlers
HTTP_OK == 200
HTTP_REDIRECT == 307
HTTP_FORBIDDEN == 403
HTTP_NOT_FOUND == 404
HTTP_BAD_REQUEST == 400

\* ------------------------------------------------ Python dict operations
EmptyDict == [k \in {} |-> {}]

Has(d, k) == k \in DOMAIN d

Get(d, k, dflt) == IF k \in DOMAIN d THEN d[k] ELSE dflt

Put(d, k, v) == [x \in (DOMAIN d) \cup {k} |-> IF x = k THEN v ELSE d[x]]

Pop(d, k) == [x \in (DOMAIN d) \ {k} |-> d[x]]

SetDefault(d, k, v) == IF k \in DOMAIN d THEN d ELSE Put(d, k, v)

\* ------------------------------------------------------------ events
Username(u) == <<"name", u>>

MessageEvent(u, n) == [type |-> "message", user_id |-> u, text |-> <<"payload", n>>]

\* ---------------------------------------------------------- payloads
\* What the classification reads of an inbound text: whether json.loads gives
\* a dict, its "type", whether float() takes its lat and lon (or enc is set),
\* its content fields (n), and the user the client names in fields of its
\* own called user_id, username, avatar (NoUser: no such fields).
RecognizedTypes == {"message", "media", "album", "location", "typing", "read"}

Claims == Users \cup {NoUser}

Payloads(n) ==
  {p \in [n : {n}, obj : BOOLEAN, type : RecognizedTypes \cup {"other"},
          claim : Claims, numeric : BOOLEAN] :
     /\ p.type # "location" => p.numeric
     /\ ~p.obj => (p.type = "other" /\ p.claim = NoUser)}

\* {"type": "message", "text": ...}
TextMessage(n) ==
  [n |-> n, obj |-> TRUE, type |-> "message", claim |-> NoUser, numeric |-> TRUE]

\* the classification, were it to copy the identity fields of the payload
ClassifyTrusting(p, u) ==
  IF p.obj /\ p.type \in RecognizedTypes /\ p.numeric
    THEN [type |-> p.type, user_id |-> IF p.claim # NoUser THEN p.claim ELSE u,
          text |-> <<"payload", p.n>>]
    ELSE [type |-> "message", user_id |-> IF p.claim # NoUser THEN p.claim ELSE u,
          text |-> <<"raw", p>>]

\* msg as the receive loop builds it: an event of the payload's type with the
\* content fields the code copies and the identity of the session, or, when
\* nothing was built or float() raised, a message whose text is the data
Classify(p, u) ==
  IF p.obj /\ p.type \in RecognizedTypes /\ p.numeric
    THEN [MessageEvent(u, p.n) EXCEPT !.type = p.type]
    ELSE [type |-> "message", user_id |-> u, text |-> <<"raw", p>>]

JoinedEvent(u) == [type |-> "system", user_id |-> NoUser, text |-> <<Username(u), "entrou na sala">>]

LeftEvent(u) == [type |-> "system", user_id |-> NoUser, text |-> <<Username(u), "saiu da sala">>]

\* ----------------------------------------------------------------- state
VARIABLES
  rooms_messages,      \* room -> list of events
  rooms_connections,   \* room -> set of websockets
  rooms_owner,         \* room -> user id
  rooms_banned,        \* room -> set of user ids
  rooms_user_sockets,  \* room -> user id -> set of websockets
  rooms_user_meta,     \* room -> user id -> username
  rooms_deleted,       \* set of tombstoned room ids
  pc,                  \* websocket -> where its handler is suspended
  ws_user,             \* websocket -> the user its cookie resolves to
  ws_room,             \* websocket -> the room id of its path
  link,                \* websocket -> state of the channel
  close_code,          \* websocket -> code of the close the server sent
  it,                  \* websocket -> iterator of the broadcast loop it is in
  dead,                \* websocket -> the dead list of that loop
  cur,                 \* websocket -> the event that loop is sending
  rp,                  \* websocket -> iterator of its history replay
  inbox,               \* websocket -> events its client has been sent
  req,                 \* moderation request in flight -> its handler's state
  resp,                \* the last answer of a moderation handler
  nmsg,                \* inbound payloads received so far
  nops,                \* inputs taken so far
  issued,              \* room ids that uuid4 has given to new_room
  stalled,             \* websockets whose client has stopped reading
  albums,              \* table albums: album id -> user_id
  album_shares,        \* table album_shares: token -> album_id, expires_at
  now,                 \* the clock, in hours
  ntok,                \* share tokens uuid4 has given out
  aresp,               \* the last answer of an album handler
  budget               \* inputs this run may take

hub == <<rooms_messages, rooms_connections, rooms_owner, rooms_banned,
         rooms_user_sockets, rooms_user_meta, rooms_deleted>>

sess == <<pc, ws_user, ws_room, link, close_code, it, dead, cur, rp, inbox>>

albumdb == <<albums, album_shares, now, ntok, aresp>>

vars == <<hub, sess, req, resp, nmsg, nops, issued, stalled, albumdb, budget>>

NoIter == [size |-> 0, pos |-> 0, det |-> FALSE, obj |-> {}]

NoReplay == [i |-> 0, det |-> FALSE, obj |-> <<>>]

NoEvent == [type |-> "none", user_id |-> NoUser, text |-> <<>>]

IdleReq == [kind |-> "none", room |-> BadRoom, caller |-> NoUser, target |-> NoUser,
            todo |-> {}, snap |-> {}, pc |-> "idle"]

NoToken == 0

NoAlbum == 0

NoAlbumResponse == [op |-> "none", caller |-> NoUser, token |-> NoToken, status |-> 0]

NoResponse == [kind |-> "none", room |-> BadRoom, caller |-> NoUser, target |-> NoUser,
               snap |-> {}, status |-> 0]

\* every dictionary empty, no websocket connected
Start ==
  /\ rooms_messages = EmptyDict
  /\ rooms_connections = EmptyDict
  /\ rooms_owner = EmptyDict
  /\ rooms_banned = EmptyDict
  /\ rooms_user_sockets = EmptyDict
  /\ rooms_user_meta = EmptyDict
  /\ rooms_deleted = {}
  /\ pc = [c \in Conns |-> "new"]
  /\ ws_user = [c \in Conns |-> NoUser]
  /\ ws_room = [c \in Conns |-> BadRoom]
  /\ link = [c \in Conns |-> "none"]
  /\ close_code = [c \in Conns |-> CODE_NONE]
  /\ it = [c \in Conns |-> NoIter]
  /\ dead = [c \in Conns |-> {}]
  /\ cur = [c \in Conns |-> NoEvent]
  /\ rp = [c \in Conns |-> NoReplay]
  /\ inbox = [c \in Conns |-> <<>>]
  /\ req = [i \in Reqs |-> IdleReq]
  /\ resp = NoResponse
  /\ nmsg = 0
  /\ nops = 0
  /\ issued = {}
  /\ stalled = {}
  /\ albums = EmptyDict
  /\ album_shares = EmptyDict
  /\ now = 0
  /\ ntok = 0
  /\ aresp = NoAlbumResponse

Init == Start /\ budget = MaxOps

InitDeep == Start /\ budget = MaxInputs

\* ------------------------------------------------------ small helpers
\* one more input from outside
Input == nops < budget /\ nops' = nops + 1 /\ UNCHANGED budget

Min(S) == CHOOSE x \in S : \A y \in S : x <= y

PassPcs == {"join_bcast", "bcast", "leave_bcast", "err_bcast"}

\* conn.send_json(msg): the client gets the event when the channel is open
\* and the client reads
Deliver(inb, lk, t, ev) ==
  IF lk[t] = "open" /\ t \notin stalled THEN [inb EXCEPT ![t] = Append(@, ev)] ELSE inb

\* await conn.send_json(msg) returns or raises: it does neither while the
\* channel is open and its client does not read (no timeout around the await)
SendCompletes(t) == ~(link[t] = "open" /\ t \in stalled)

\* conn.send_json(msg) raises on a channel that is closed or gone
SendFails(lk, t) == lk[t] # "open"

\* ws.close(code=...): closes an open channel; on any other it raises,
\* and every caller swallows that (try/except pass), or returns
Closed(lk, t) == IF lk[t] = "open" THEN [lk EXCEPT ![t] = "srv_closed"] ELSE lk

Coded(cc, lk, t, code) == IF lk[t] = "open" THEN [cc EXCEPT ![t] = code] ELSE cc

\* the handler raised: the server drops the channel
Aborted(lk, c) == [lk EXCEPT ![c] = IF @ = "open" THEN "aborted" ELSE @]

\* ensure_room, on one of the dictionaries
EnsureRoomReset(d, r, empty) == Put(d, r, empty)

EnsureRoom(d, r, empty) == SetDefault(d, r, empty)

\* the handler of c leaves its loop and suspends (or ends) at newpc
Settle(c, newpc, rc, lk, cc, inb) ==
  /\ pc' = [pc EXCEPT ![c] = newpc]
  /\ rooms_connections' = rc
  /\ link' = lk
  /\ close_code' = cc
  /\ inbox' = inb
  /\ it' = [it EXCEPT ![c] = NoIter]
  /\ dead' = [dead EXCEPT ![c] = {}]
  /\ cur' = [cur EXCEPT ![c] = NoEvent]
  /\ rp' = [rp EXCEPT ![c] = NoReplay]

\* for msg in rooms_messages.get(room_id, []): await ws.send_json(msg)
\* (the first iteration; a failing send raises out of the handler)
ReplayStart(c, r, rc, lk, cc, inb) ==
  LET L == Get(rooms_messages, r, <<>>) IN
  IF L = <<>> THEN Settle(c, "recv", rc, lk, cc, inb)
  ELSE IF SendFails(lk, c) THEN Settle(c, "crashed", rc, Aborted(lk, c), cc, inb)
  ELSE /\ pc' = [pc EXCEPT ![c] = "replay"]
       /\ rp' = [rp EXCEPT ![c] = [i |-> 1, det |-> FALSE, obj |-> <<>>]]
       /\ inbox' = Deliver(inb, lk, c, L[1])
       /\ rooms_connections' = rc
       /\ link' = lk
       /\ close_code' = cc
       /\ it' = [it EXCEPT ![c] = NoIter]
       /\ dead' = [dead EXCEPT ![c] = {}]
       /\ cur' = [cur EXCEPT ![c] = NoEvent]

\* the end of a broadcast loop: for conn in dead: rooms_connections[room_id].discard(conn),
\* then what follows the loop in the handler, up to its next await
FinishPass(c, r, ctx, rc, dd, lk, cc, inb) ==
  LET rc2 == IF dd = {} THEN rc ELSE [rc EXCEPT ![r] = @ \ dd]
  IN IF dd # {} /\ ~Has(rc, r)
       THEN Settle(c, "crashed", rc, Aborted(lk, c), cc, inb)
     ELSE IF ctx = "join_bcast" THEN ReplayStart(c, r, rc2, lk, cc, inb)
     ELSE IF ctx = "bcast" THEN Settle(c, "recv", rc2, lk, cc, inb)
     ELSE IF ctx = "leave_bcast" THEN Settle(c, "done", rc2, lk, cc, inb)
     ELSE Settle(c, "done", rc2, Closed(lk, c), Coded(cc, lk, c, CODE_ERROR), inb)

\* rooms_connections.get(room_id, set())
ConnsOfAnyRoom(rc, r) == UNION {rc[x] : x \in DOMAIN rc}

ConnsOf(rc, r) == Get(rc, r, {})

\* the start of a broadcast loop over rooms_connections.get(room_id, set()):
\* the first send, after which the handler is suspended inside the loop.
\* A set of websockets is iterated in slot order, here ascending id.
StartPass(c, r, ctx, ev, rc, lk, cc, inb) ==
  LET S == ConnsOf(rc, r) IN
  IF S = {} THEN FinishPass(c, r, ctx, rc, {}, lk, cc, inb)
  ELSE LET t == Min(S) IN
       /\ pc' = [pc EXCEPT ![c] = ctx]
       /\ it' = [it EXCEPT ![c] = [size |-> Cardinality(S), pos |-> t, det |-> FALSE, obj |-> {}]]
       /\ dead' = [dead EXCEPT ![c] = IF SendFails(lk, t) THEN {t} ELSE {}]
       /\ cur' = [cur EXCEPT ![c] = ev]
       /\ inbox' = Deliver(inb, lk, t, ev)
       /\ rooms_connections' = rc
       /\ link' = lk
       /\ close_code' = cc
       /\ rp' = [rp EXCEPT ![c] = NoReplay]

\* the body of both except clauses of websocket_endpoint
\* (ctx = "leave_bcast": except WebSocketDisconnect; "err_bcast": except Exception)
Teardown(c, ctx) ==
  LET r == ws_room[c]
      u == ws_user[c]
  IN IF ~Has(rooms_connections, r)
       THEN /\ Settle(c, "crashed", rooms_connections, Aborted(link, c), close_code, inbox)
            /\ UNCHANGED <<rooms_user_sockets, rooms_user_meta>>
     ELSE LET rc1 == [rooms_connections EXCEPT ![r] = @ \ {c}]
              us1 == IF Has(rooms_user_sockets, r) /\ Has(rooms_user_sockets[r], u)
                       THEN [rooms_user_sockets EXCEPT ![r][u] = @ \ {c}]
                       ELSE rooms_user_sockets
          IN /\ rooms_user_sockets' = us1
             /\ IF Get(Get(us1, r, EmptyDict), u, {}) = {}
                  THEN /\ rooms_user_meta' = IF Has(rooms_user_meta, r)
                                               THEN [rooms_user_meta EXCEPT ![r] = Pop(@, u)]
                                               ELSE rooms_user_meta
                       /\ StartPass(c, r, ctx, LeftEvent(u), rc1, link, close_code, inbox)
                  ELSE /\ UNCHANGED rooms_user_meta
                       /\ IF ctx = "leave_bcast"
                            THEN Settle(c, "done", rc1, link, close_code, inbox)
                            ELSE Settle(c, "done", rc1, Closed(link, c),
                                        Coded(close_code, link, c, CODE_ERROR), inbox)

\* Users are interchangeable; a user no state mentions yet is taken in id order.
UsedUsers ==
  {ws_user[c] : c \in Conns} \cup {rooms_owner[r] : r \in DOMAIN rooms_owner}
    \cup UNION {rooms_banned[r] : r \in DOMAIN rooms_banned}
    \cup {req[i].caller : i \in Reqs} \cup {req[i].target : i \in Reqs}
    \cup {resp.caller, resp.target}

UsableUsers ==
  LET new == Users \ UsedUsers IN
  (Users \cap UsedUsers) \cup (IF new = {} THEN {} ELSE {Min(new)})

\* ------------------------------------------------- websocket_endpoint
\* if room_id in rooms_deleted
IsTombstonedNever(r) == FALSE

IsTombstoned(r) == r \in rooms_deleted

\* if user["id"] in rooms_banned.get(room_id, set())
IsBannedNever(u, r) == FALSE

IsBanned(u, r) == u \in Get(rooms_banned, r, {})

\* the causes for which the hub closes a websocket, and the code of each:
\* the code argument of the ws.close call the cause leads to
Causes == {"unauthenticated", "invalid_room", "tombstoned", "banned", "kicked",
           "destroyed", "error"}

CloseCodeFor(cause) ==
  CASE cause = "unauthenticated" -> CODE_POLICY
    [] cause = "invalid_room" -> CODE_POLICY
    [] cause = "tombstoned" -> CODE_DELETED
    [] cause = "banned" -> CODE_BANNED
    [] cause = "kicked" -> CODE_KICKED
    [] cause = "destroyed" -> CODE_NORMAL
    [] cause = "error" -> CODE_ERROR

\* the cookie resolves to a user row and uuid.UUID takes the room id
AdmittedAlways(u, r) == TRUE

Admitted(u, r) == u \in Users /\ r \in Rooms

\* accept, the session lookup, the room id check, and the join up to the
\* first send of the "entrou na sala" broadcast
Connect(c, u, r) ==
  /\ UNCHANGED <<issued, stalled, albumdb>>
  /\ Input
  /\ pc[c] = "new"
  /\ \A d \in Conns : d < c => pc[d] # "new"
  /\ u \in UsableUsers \cup {NoUser}
  /\ ws_user' = [ws_user EXCEPT ![c] = IF Admitted(u, r) THEN u ELSE NoUser]
  /\ ws_room' = [ws_room EXCEPT ![c] = IF Admitted(u, r) THEN r ELSE BadRoom]
  /\ UNCHANGED <<rooms_owner, rooms_deleted, req, resp, nmsg>>
  /\ LET lk == [link EXCEPT ![c] = "open"]
     IN IF ~Admitted(u, r)
          THEN /\ UNCHANGED <<rooms_messages, rooms_banned, rooms_user_sockets, rooms_user_meta>>
               /\ Settle(c, "done", rooms_connections, Closed(lk, c),
                         Coded(close_code, lk, c,
                               CloseCodeFor(IF u \notin Users THEN "unauthenticated"
                                            ELSE "invalid_room")), inbox)
        ELSE /\ rooms_messages' = EnsureRoom(rooms_messages, r, <<>>)
             /\ rooms_banned' = EnsureRoom(rooms_banned, r, {})
             /\ LET rc0 == EnsureRoom(rooms_connections, r, {})
                    us0 == EnsureRoom(rooms_user_sockets, r, EmptyDict)
                    um0 == EnsureRoom(rooms_user_meta, r, EmptyDict)
                IN IF IsTombstoned(r)
                     THEN /\ rooms_user_sockets' = us0
                          /\ rooms_user_meta' = um0
                          /\ Settle(c, "done", rc0, Closed(lk, c),
                                    Coded(close_code, lk, c, CloseCodeFor("tombstoned")), inbox)
                   ELSE IF IsBanned(u, r)
                     THEN /\ rooms_user_sockets' = us0
                          /\ rooms_user_meta' = um0
                          /\ Settle(c, "done", rc0, Closed(lk, c),
                                    Coded(close_code, lk, c, CloseCodeFor("banned")), inbox)
                   ELSE /\ rooms_user_sockets' =
                             [us0 EXCEPT ![r] = Put(@, u, Get(@, u, {}) \cup {c})]
                        /\ rooms_user_meta' = [um0 EXCEPT ![r] = Put(@, u, Username(u))]
                        /\ StartPass(c, r, "join_bcast", JoinedEvent(u),
                                     [rc0 EXCEPT ![r] = @ \cup {c}], lk, close_code, inbox)

\* one more iteration of a broadcast loop, or its end
PassStep(c) ==
  /\ UNCHANGED <<issued, stalled, albumdb>>
  /\ pc[c] \in PassPcs
  /\ SendCompletes(it[c].pos)
  /\ UNCHANGED <<rooms_messages, rooms_owner, rooms_banned, rooms_deleted,
                 ws_user, ws_room, req, resp, nmsg, nops, budget>>
  /\ LET S == IF it[c].det THEN it[c].obj ELSE rooms_connections[ws_room[c]]
         rest == {t \in S : t > it[c].pos}
     IN IF Cardinality(S) # it[c].size
          THEN \* RuntimeError: Set changed size during iteration
               IF pc[c] = "bcast"
                 THEN Teardown(c, "err_bcast")
                 ELSE /\ Settle(c, "crashed", rooms_connections, Aborted(link, c),
                                close_code, inbox)
                      /\ UNCHANGED <<rooms_user_sockets, rooms_user_meta>>
        ELSE IF rest = {}
          THEN /\ FinishPass(c, ws_room[c], pc[c], rooms_connections, dead[c], link, close_code, inbox)
               /\ UNCHANGED <<rooms_user_sockets, rooms_user_meta>>
        ELSE LET t == Min(rest) IN
             /\ it' = [it EXCEPT ![c].pos = t]
             /\ dead' = [dead EXCEPT ![c] = IF SendFails(link, t) THEN @ \cup {t} ELSE @]
             /\ inbox' = Deliver(inbox, link, t, cur[c])
             /\ UNCHANGED <<rooms_connections, rooms_user_sockets, rooms_user_meta,
                            pc, link, close_code, cur, rp>>

\* one more iteration of the history replay, or its end
ReplayStep(c) ==
  /\ UNCHANGED <<issued, stalled, albumdb>>
  /\ pc[c] = "replay"
  /\ SendCompletes(c)
  /\ UNCHANGED <<hub, ws_user, ws_room, req, resp, nmsg, nops, budget>>
  /\ LET L == IF rp[c].det THEN rp[c].obj ELSE rooms_messages[ws_room[c]]
         i == rp[c].i + 1
     IN IF i > Len(L) THEN Settle(c, "recv", rooms_connections, link, close_code, inbox)
        ELSE IF SendFails(link, c)
          THEN Settle(c, "crashed", rooms_connections, Aborted(link, c), close_code, inbox)
        ELSE /\ rp' = [rp EXCEPT ![c].i = i]
             /\ inbox' = Deliver(inbox, link, c, L[i])
             /\ UNCHANGED <<pc, link, close_code, it, dead, cur>>

\* rooms_messages[room_id].append(msg)
HistoryReplaced(L, msg) == <<msg>>

HistoryUntouched(L, msg) == L

HistoryAfter(L, msg) == Append(L, msg)

\* receive_text returns a payload: build the event, append it, start the fan-out
Recv(c, p) ==
  /\ UNCHANGED <<issued, stalled, albumdb>>
  /\ Input
  /\ pc[c] = "recv"
  /\ link[c] = "open"
  /\ nmsg' = nmsg + 1
  /\ UNCHANGED <<rooms_owner, rooms_banned, rooms_deleted, ws_user, ws_room, req, resp>>
  /\ LET r == ws_room[c]
         msg == Classify(p, ws_user[c])
     IN IF ~Has(rooms_messages, r)
          THEN \* KeyError at the append, caught by except Exception
               /\ UNCHANGED rooms_messages
               /\ Teardown(c, "err_bcast")
        ELSE /\ rooms_messages' = [rooms_messages EXCEPT ![r] = HistoryAfter(@, msg)]
             /\ UNCHANGED <<rooms_user_sockets, rooms_user_meta>>
             /\ StartPass(c, r, "bcast", msg, rooms_connections, link, close_code, inbox)

\* receive_text raises something other than WebSocketDisconnect
\* (the client sent a binary frame)
RecvBinary(c) ==
  /\ UNCHANGED <<issued, stalled, albumdb>>
  /\ Input
  /\ pc[c] = "recv"
  /\ link[c] = "open"
  /\ UNCHANGED <<rooms_messages, rooms_owner, rooms_banned, rooms_deleted,
                 ws_user, ws_room, req, resp, nmsg>>
  /\ Teardown(c, "err_bcast")

\* receive_text raises WebSocketDisconnect: the channel was closed
Disconnect(c) ==
  /\ UNCHANGED <<issued, stalled, albumdb>>
  /\ pc[c] = "recv"
  /\ link[c] \in {"srv_closed", "cli_closed"}
  /\ UNCHANGED <<rooms_messages, rooms_owner, rooms_banned, rooms_deleted,
                 ws_user, ws_room, req, resp, nmsg, nops, budget>>
  /\ Teardown(c, "leave_bcast")

\* the client closes its end
ClientClose(c) ==
  /\ UNCHANGED <<issued, stalled, albumdb>>
  /\ Input
  /\ link[c] = "open"
  /\ pc[c] \notin {"new", "done", "crashed"}
  /\ link' = [link EXCEPT ![c] = "cli_closed"]
  /\ UNCHANGED <<hub, pc, ws_user, ws_room, close_code, it, dead, cur, rp, inbox, req, resp, nmsg>>

\* the client stops reading: from now on a send to it does not complete
Stall(c) ==
  /\ Input
  /\ link[c] = "open"
  /\ c \notin stalled
  /\ stalled' = stalled \cup {c}
  /\ UNCHANGED <<hub, sess, req, resp, nmsg, issued, albumdb>>

\* --------------------------------------------------- moderation handlers
\* owner_id = rooms_owner.get(room_id); if owner_id and owner_id != user["id"]: 403
ForbiddenNever(r, caller) == FALSE

Forbidden(r, caller) == Has(rooms_owner, r) /\ rooms_owner[r] # caller

KnownRooms == (DOMAIN rooms_messages) \cup (DOMAIN rooms_owner) \cup rooms_deleted \cup issued

\* str(uuid.uuid4()): an id that no dictionary holds and no client has used
FreshRooms == Rooms \ KnownRooms

NextReq == IF \E i \in Reqs : req[i].pc = "idle"
             THEN {Min({i \in Reqs : req[i].pc = "idle"})} ELSE {}

CodeOf(kind) == IF kind = "kick" THEN CODE_KICKED
                ELSE IF kind = "ban" THEN CODE_BANNED ELSE CODE_NORMAL

\* Room ids are interchangeable; an id nothing has used yet is taken in order.
UsableRooms == (Rooms \cap KnownRooms) \cup (IF FreshRooms = {} THEN {} ELSE {Min(FreshRooms)})

\* GET /new
new_room(caller) ==
  /\ Input
  /\ \E r \in {x \in FreshRooms : x = Min(FreshRooms)} :
       /\ rooms_deleted' = rooms_deleted \ {r}
       /\ rooms_owner' = Put(rooms_owner, r, caller)
       /\ issued' = issued \cup {r}
  /\ UNCHANGED <<stalled, albumdb>>
  /\ UNCHANGED <<rooms_messages, rooms_connections, rooms_banned, rooms_user_sockets,
                 rooms_user_meta, sess, req, resp, nmsg>>

\* if room_id in rooms_deleted: return RedirectResponse(url="/app")
PageRefusedNever(r) == FALSE

PageRefused(r) == r \in rooms_deleted

\* the answer of an HTTP handler
Response(kind, caller, r, target, S, status) ==
  [kind |-> kind, room |-> r, caller |-> caller, target |-> target, snap |-> S,
   status |-> status]

\* GET /room/{room_id}: a malformed or tombstoned id is redirected to /app,
\* any other id gets its maps (ensure_room) and the page
chat_room(r) ==
  /\ UNCHANGED <<issued, stalled, albumdb>>
  /\ Input
  /\ UNCHANGED <<rooms_owner, rooms_deleted, sess, req, nmsg>>
  /\ IF r \notin Rooms \/ PageRefused(r)
       THEN /\ resp' = Response("page", NoUser, r, NoUser, {}, HTTP_REDIRECT)
            /\ UNCHANGED <<rooms_messages, rooms_connections, rooms_banned,
                           rooms_user_sockets, rooms_user_meta>>
       ELSE /\ resp' = Response("page", NoUser, r, NoUser, {}, HTTP_OK)
            /\ rooms_messages' = EnsureRoom(rooms_messages, r, <<>>)
            /\ rooms_connections' = EnsureRoom(rooms_connections, r, {})
            /\ rooms_banned' = EnsureRoom(rooms_banned, r, {})
            /\ rooms_user_sockets' = EnsureRoom(rooms_user_sockets, r, EmptyDict)
            /\ rooms_user_meta' = EnsureRoom(rooms_user_meta, r, EmptyDict)

\* GET /room/{room_id}/online: the users the handler lists, or 404
room_online(r) ==
  IF ~Has(rooms_owner, r)
    THEN [status |-> HTTP_NOT_FOUND, users |-> {}]
    ELSE [status |-> HTTP_OK,
          users |-> {u \in DOMAIN Get(rooms_user_sockets, r, EmptyDict) :
                       rooms_user_sockets[r][u] # {}}]

\* the request is answered 403 before anything is touched
Refuse(kind, caller, r, target) ==
  /\ resp' = Response(kind, caller, r, target, {}, HTTP_FORBIDDEN)
  /\ UNCHANGED <<hub, sess, req, nmsg>>

\* for ws in list(conns): await ws.close(code): the first close of the loop;
\* after the last close kick and ban return, destroy goes on to clear the room
StartCloses(i, kind, caller, r, target, S) ==
  /\ UNCHANGED <<pc, ws_user, ws_room, it, dead, cur, rp, inbox, nmsg>>
  /\ IF S = {}
       THEN /\ resp' = Response(kind, caller, r, target, S, HTTP_OK)
            /\ UNCHANGED <<link, close_code, req>>
       ELSE LET t == Min(S) IN
            /\ link' = Closed(link, t)
            /\ close_code' = Coded(close_code, link, t, CodeOf(kind))
            /\ IF kind # "destroy" /\ S = {t}
                 THEN /\ resp' = Response(kind, caller, r, target, S, HTTP_OK)
                      /\ UNCHANGED req
                 ELSE /\ req' = [req EXCEPT ![i] =
                                   [kind |-> kind, room |-> r, caller |-> caller,
                                    target |-> target, todo |-> S \ {t}, snap |-> S,
                                    pc |-> "closing"]]
                      /\ UNCHANGED resp

\* ensure_room(room_id), and in ban_user rooms_banned[room_id].add(user_id)
BannedAfterAlways(kind, r, target) ==
  [EnsureRoom(rooms_banned, r, {}) EXCEPT ![r] = @ \cup {target}]

BannedAfter(kind, r, target) ==
  IF kind = "ban" THEN [EnsureRoom(rooms_banned, r, {}) EXCEPT ![r] = @ \cup {target}]
  ELSE EnsureRoom(rooms_banned, r, {})

\* POST /room/{room_id}/kick/{user_id}
kick_user(i, caller, r, target) ==
  /\ UNCHANGED <<issued, stalled, albumdb>>
  /\ Input
  /\ i \in NextReq
  /\ IF Forbidden(r, caller) THEN Refuse("kick", caller, r, target)
     ELSE /\ rooms_messages' = EnsureRoom(rooms_messages, r, <<>>)
          /\ rooms_connections' = EnsureRoom(rooms_connections, r, {})
          /\ rooms_banned' = BannedAfter("kick", r, target)
          /\ rooms_user_sockets' = EnsureRoom(rooms_user_sockets, r, EmptyDict)
          /\ rooms_user_meta' = EnsureRoom(rooms_user_meta, r, EmptyDict)
          /\ UNCHANGED <<rooms_owner, rooms_deleted>>
          /\ StartCloses(i, "kick", caller, r, target,
                         Get(Get(rooms_user_sockets, r, EmptyDict), target, {}))

\* POST /room/{room_id}/ban/{user_id}
ban_user(i, caller, r, target) ==
  /\ UNCHANGED <<issued, stalled, albumdb>>
  /\ Input
  /\ i \in NextReq
  /\ IF Forbidden(r, caller) THEN Refuse("ban", caller, r, target)
     ELSE /\ rooms_messages' = EnsureRoom(rooms_messages, r, <<>>)
          /\ rooms_connections' = EnsureRoom(rooms_connections, r, {})
          /\ rooms_banned' = BannedAfter("ban", r, target)
          /\ rooms_user_sockets' = EnsureRoom(rooms_user_sockets, r, EmptyDict)
          /\ rooms_user_meta' = EnsureRoom(rooms_user_meta, r, EmptyDict)
          /\ UNCHANGED <<rooms_owner, rooms_deleted>>
          /\ StartCloses(i, "ban", caller, r, target,
                         Get(Get(rooms_user_sockets, r, EmptyDict), target, {}))

\* rooms_*.pop(room_id, None) and rooms_deleted.add(room_id): the end of
\* destroy_room. A handler that is iterating the room's connection set or
\* history keeps the popped object, which nothing changes any more.
ClearRoom(i, r) ==
  /\ rooms_connections' = Pop(rooms_connections, r)
  /\ rooms_messages' = Pop(rooms_messages, r)
  /\ rooms_owner' = Pop(rooms_owner, r)
  /\ rooms_banned' = Pop(rooms_banned, r)
  /\ rooms_user_sockets' = Pop(rooms_user_sockets, r)
  /\ rooms_user_meta' = Pop(rooms_user_meta, r)
  /\ rooms_deleted' = rooms_deleted \cup {r}
  /\ it' = [c \in Conns |->
              IF pc[c] \in PassPcs /\ ws_room[c] = r /\ ~it[c].det
                THEN [it[c] EXCEPT !.det = TRUE, !.obj = rooms_connections[r]]
                ELSE it[c]]
  /\ rp' = [c \in Conns |->
              IF pc[c] = "replay" /\ ws_room[c] = r /\ ~rp[c].det
                THEN [rp[c] EXCEPT !.det = TRUE, !.obj = rooms_messages[r]]
                ELSE rp[c]]
  /\ UNCHANGED <<pc, ws_user, ws_room, dead, cur, inbox, nmsg>>

\* POST /destroy/{room_id}
destroy_room(i, caller, r) ==
  /\ UNCHANGED <<issued, stalled, albumdb>>
  /\ Input
  /\ i \in NextReq
  /\ IF Forbidden(r, caller) THEN Refuse("destroy", caller, r, NoUser)
     ELSE LET S == Get(rooms_connections, r, {}) IN
          IF S = {}
            THEN /\ ClearRoom(i, r)
                 /\ resp' = Response("destroy", caller, r, NoUser, {}, HTTP_OK)
                 /\ UNCHANGED <<link, close_code, req>>
            ELSE /\ UNCHANGED hub
                 /\ StartCloses(i, "destroy", caller, r, NoUser, S)

\* a moderation handler resumes after an awaited close: the next close of
\* its list, or, for destroy after the last one, the clearing of the room
CloseStep(i) ==
  /\ UNCHANGED <<issued, stalled, albumdb>>
  /\ req[i].pc = "closing"
  /\ UNCHANGED <<nops, budget>>
  /\ LET q == req[i]
         answer == Response(q.kind, q.caller, q.room, q.target, q.snap, HTTP_OK)
     IN IF q.todo = {}
          THEN /\ ClearRoom(i, q.room)
               /\ req' = [req EXCEPT ![i] = IdleReq]
               /\ resp' = answer
               /\ UNCHANGED <<link, close_code>>
        ELSE LET t == Min(q.todo) IN
             /\ link' = Closed(link, t)
             /\ close_code' = Coded(close_code, link, t, CodeOf(q.kind))
             /\ IF q.todo = {t} /\ q.kind # "destroy"
                  THEN /\ req' = [req EXCEPT ![i] = IdleReq]
                       /\ resp' = answer
                  ELSE /\ req' = [req EXCEPT ![i].todo = @ \ {t}]
                       /\ UNCHANGED resp
             /\ UNCHANGED <<hub, pc, ws_user, ws_room, it, dead, cur, rp, inbox, nmsg>>

\* ---------------------------------------------------- album sharing
TTL_HOURS == {1, 24, 168}

\* the ttl_hours a client may put in the query
TtlInputs == TTL_HOURS \cup {0}

\* hours that pass between two requests
Elapse == {1, 25, 169}

AlbumResponse(op, caller, token, status) ==
  [op |-> op, caller |-> caller, token |-> token, status |-> status]

\* SELECT id FROM albums WHERE id = ? AND user_id = ?
OwnsAlbum(u, a) == Has(albums, a) /\ albums[a] = u

\* SELECT ... FROM album_shares JOIN albums ON albums.id = album_shares.album_id
\* WHERE album_shares.token = ? AND albums.user_id = ?
OwnsTokenAlways(u, t) == Has(album_shares, t)

OwnsToken(u, t) == Has(album_shares, t) /\ OwnsAlbum(u, album_shares[t].album_id)

\* exp and exp < now_dt()
Expired(t) == album_shares[t].expires_at < now

\* GET /album/shared/{token}: the page, or a redirect to /
view_shared_album(t) ==
  IF ~Has(album_shares, t) \/ ~Has(albums, album_shares[t].album_id) THEN HTTP_REDIRECT
  ELSE IF Expired(t) THEN HTTP_REDIRECT
  ELSE HTTP_OK

\* every action of the hub leaves the album tables alone, and back
HubUnchanged == UNCHANGED <<hub, sess, req, resp, nmsg, issued, stalled>>

\* POST /albums
create_album(u) ==
  /\ Input
  /\ HubUnchanged
  /\ albums' = Put(albums, Cardinality(DOMAIN albums) + 1, u)
  /\ aresp' = AlbumResponse("create", u, NoToken, HTTP_OK)
  /\ UNCHANGED <<album_shares, now, ntok>>

\* POST /album/{album_id}/share
share_album(u, a, ttl_hours) ==
  /\ Input
  /\ HubUnchanged
  /\ UNCHANGED <<albums, now>>
  /\ IF ~OwnsAlbum(u, a)
       THEN /\ aresp' = AlbumResponse("share", u, NoToken, HTTP_NOT_FOUND)
            /\ UNCHANGED <<album_shares, ntok>>
     ELSE IF ttl_hours \notin TTL_HOURS
       THEN /\ aresp' = AlbumResponse("share", u, NoToken, HTTP_BAD_REQUEST)
            /\ UNCHANGED <<album_shares, ntok>>
     ELSE /\ ntok' = ntok + 1
          /\ album_shares' = Put(album_shares, ntok + 1,
                                 [album_id |-> a, expires_at |-> now + ttl_hours])
          /\ aresp' = AlbumResponse("share", u, ntok + 1, HTTP_OK)

\* POST /album/share/revoke/{token}
revoke_share_token(u, t) ==
  /\ Input
  /\ HubUnchanged
  /\ UNCHANGED <<albums, now, ntok>>
  /\ IF ~OwnsToken(u, t)
       THEN /\ aresp' = AlbumResponse("revoke", u, t, HTTP_NOT_FOUND)
            /\ UNCHANGED album_shares
       ELSE /\ album_shares' = Pop(album_shares, t)
            /\ aresp' = AlbumResponse("revoke", u, t, HTTP_OK)

\* POST /album/{album_id}/revoke
revoke_album_shares(u, a) ==
  /\ Input
  /\ HubUnchanged
  /\ UNCHANGED <<albums, now, ntok>>
  /\ IF ~OwnsAlbum(u, a)
       THEN /\ aresp' = AlbumResponse("revoke_all", u, NoToken, HTTP_NOT_FOUND)
            /\ UNCHANGED album_shares
       ELSE /\ album_shares' = [t \in {x \in DOMAIN album_shares :
                                            album_shares[x].album_id # a} |-> album_shares[t]]
            /\ aresp' = AlbumResponse("revoke_all", u, NoToken, HTTP_OK)

\* datetime.utcnow() moves on
Tick(d) ==
  /\ Input
  /\ HubUnchanged
  /\ now' = now + d
  /\ UNCHANGED <<albums, album_shares, ntok, aresp>>

\* ------------------------------------------------------ specification
Next ==
  \/ \E c \in Conns, u \in Users \cup {NoUser}, r \in UsableRooms \cup {BadRoom} : Connect(c, u, r)
  \/ \E c \in Conns : PassStep(c)
  \/ \E c \in Conns : ReplayStep(c)
  \/ \E c \in Conns : Recv(c, TextMessage(nmsg + 1))
  \/ \E c \in Conns : RecvBinary(c)
  \/ \E c \in Conns : Disconnect(c)
  \/ \E c \in Conns : ClientClose(c)
  \/ \E u \in UsableUsers : new_room(u)
  \/ \E r \in UsableRooms \cup {BadRoom} : chat_room(r)
  \/ \E i \in Reqs, u \in UsableUsers, r \in UsableRooms, t \in UsableUsers : kick_user(i, u, r, t)
  \/ \E i \in Reqs, u \in UsableUsers, r \in UsableRooms, t \in UsableUsers : ban_user(i, u, r, t)
  \/ \E i \in Reqs, u \in UsableUsers, r \in UsableRooms : destroy_room(i, u, r)
  \/ \E i \in Reqs : CloseStep(i)

Spec == Init /\ [][Next]_vars

SpecDeep == InitDeep /\ [][Next]_vars

\* The hub with clients that may stop reading. The event loop resumes every
\* handler whose awaited send, close or receive has completed.
NextStall ==
  \/ Next
  \/ \E c \in Conns : Stall(c)

Fairness ==
  /\ \A c \in Conns : WF_vars(PassStep(c))
  /\ \A c \in Conns : WF_vars(ReplayStep(c))
  /\ \A c \in Conns : WF_vars(Disconnect(c))
  /\ \A i \in Reqs : WF_vars(CloseStep(i))

\* The album handlers, which share nothing with the hub but the users.
NextAlbum ==
  \/ \E u \in Users : create_album(u)
  \/ \E u \in Users, a \in DOMAIN albums \cup {NoAlbum}, h \in TtlInputs : share_album(u, a, h)
  \/ \E u \in Users, t \in 0..ntok : revoke_share_token(u, t)
  \/ \E u \in Users, a \in DOMAIN albums \cup {NoAlbum} : revoke_album_shares(u, a)
  \/ \E d \in Elapse : Tick(d)

SpecAlbum == Init /\ [][NextAlbum]_vars

\* The hub with clients that send every kind of payload.
NextPayload ==
  \/ Next
  \/ \E c \in Conns : \E p \in Payloads(nmsg + 1) : Recv(c, p)

SpecPayload == Init /\ [][NextPayload]_vars

SpecStall == Init /\ [][NextStall]_vars /\ Fairness

\* ------------------------------------------------- vocabulary of the claims
\* the handler of c has joined and has not ended
Live(c) == pc[c] \notin {"new", "done", "crashed"}

\* the message events among the events a client was sent
MsgsOf(s) == SelectSeq(s, LAMBDA e : e.type = "message")

NoDup(s) == \A i, j \in 1..Len(s) : i # j => s[i] # s[j]

Count(s, e) == Cardinality({i \in 1..Len(s) : s[i] = e})

\* the websockets of user u the hub holds for room r, before and after a step
Members(r, u) ==
  Get(Get(rooms_user_sockets, r, EmptyDict), u, {})
    \cup {c \in Get(rooms_connections, r, {}) : ws_user[c] = u}

MembersAfter(r, u) ==
  Get(Get(rooms_user_sockets', r, EmptyDict), u, {})
    \cup {c \in Get(rooms_connections', r, {}) : ws_user'[c] = u}

\* this step is websocket c, authenticated as u, attempting to join room r
JoinAttempt(c, u, r) ==
  pc[c] = "new" /\ pc'[c] # "new" /\ ws_user'[c] = u /\ ws_room'[c] = r

\* this step is the code of a moderation handler of that kind
ModStep(kind) ==
  \/ resp' # resp /\ resp'.kind = kind
  \/ \E i \in Reqs : req'[i] # req[i] /\ kind \in {req[i].kind, req'[i].kind}

\* ----------------------------------------------------------------- C1
\* C1: once a room id is tombstoned, no step removes it from rooms_deleted,
\* every join attempt with it is closed with 4100 without being added to the
\* room's connection set or to a user's socket set, and so a tombstoned room
\* has no member.
C1_TombstonePermanent ==
  [][ /\ rooms_deleted \subseteq rooms_deleted'
      /\ \A c \in Conns, u \in Users, r \in rooms_deleted :
           JoinAttempt(c, u, r) =>
             /\ close_code'[c] = CODE_DELETED
             /\ link'[c] = "srv_closed"
             /\ pc'[c] = "done"
      /\ \A r \in rooms_deleted', u \in Users : MembersAfter(r, u) = {}
      /\ \A r \in rooms_deleted' : Get(rooms_connections', r, {}) = {} ]_vars

\* a join attempt on a destroyed room was turned away with 4100
C1_Witness ==
  \E c \in Conns : /\ ws_room[c] \in rooms_deleted
                   /\ close_code[c] = CODE_DELETED
                   /\ pc[c] = "done"
                   /\ resp.kind = "destroy" /\ resp.status = HTTP_OK

\* ----------------------------------------------------------------- C2
\* C2 as stated: when ban_user has answered, every websocket of the banned
\* user that the room held when the ban was applied carries the close code
\* 4003.
C2_AllClosedAsBanned ==
  (resp.kind = "ban" /\ resp.status = HTTP_OK) =>
     \A t \in resp.snap : close_code[t] = CODE_BANNED

\* a ban is being applied to (r, u): its handler has added u to the ban set
\* and has not returned yet
BanInFlight(r, u) ==
  \E i \in Reqs : req[i].kind = "ban" /\ req[i].room = r /\ req[i].target = u

\* C2, amended: a user stays in the ban set until the room is destroyed; a
\* banned user's join attempt is closed with 4003 and no websocket of a
\* banned user is added to the room; the ban handler closes with 4003 every
\* websocket of the user that is still open when its loop reaches it (one
\* that was closed before keeps the close it had), lists all of the user's
\* websockets at the time of the ban, and once it has returned none of the
\* websockets the room holds for the user is open.
C2_Ban ==
  [][ /\ \A r \in DOMAIN rooms_banned :
           \/ r \in DOMAIN rooms_banned' /\ rooms_banned[r] \subseteq rooms_banned'[r]
           \/ r \in rooms_deleted'
      /\ \A r \in Rooms, u \in Users :
           IsBanned(u, r) =>
             /\ MembersAfter(r, u) \subseteq Members(r, u)
             /\ \A c \in Conns :
                  (JoinAttempt(c, u, r) /\ ~IsTombstoned(r)) =>
                     close_code'[c] = CODE_BANNED /\ pc'[c] = "done"
      /\ \A t \in Conns :
           (ModStep("ban") /\ link[t] = "open" /\ link'[t] # "open") =>
              close_code'[t] = CODE_BANNED
      /\ \A i \in Reqs :
           (req[i].kind # "ban" /\ req'[i].kind = "ban") =>
              req'[i].snap = Members(req'[i].room, req'[i].target)
      /\ (resp' # resp /\ req' = req /\ resp'.kind = "ban" /\ resp'.status = HTTP_OK) =>
              resp'.snap = Members(resp'.room, resp'.target)
      /\ \A r \in DOMAIN rooms_banned', u \in Users :
           (u \in rooms_banned'[r] /\ ~BanInFlight(r, u)') =>
              \A c \in MembersAfter(r, u) : link'[c] # "open" ]_vars

\* a ban closed a websocket of the user with 4003, and a later join attempt
\* of that user was turned away with 4003
C2_Witness ==
  /\ resp.kind = "ban" /\ resp.status = HTTP_OK
  /\ \E t \in resp.snap : close_code[t] = CODE_BANNED
  /\ \E c \in Conns \ resp.snap :
        /\ ws_user[c] = resp.target /\ ws_room[c] = resp.room
        /\ close_code[c] = CODE_BANNED /\ inbox[c] = <<>>

\* ----------------------------------------------------------------- C3
\* C3: once destroy_room has tombstoned a room, no websocket whose handler
\* is still running on that room has an open channel.
C3_DestroyEvictsAll ==
  \A c \in Conns : (Live(c) /\ ws_room[c] \in rooms_deleted) => link[c] # "open"

\* ----------------------------------------------------------------- C4
\* C4: the message events a client has been sent, when no event was sent to
\* it twice, are in the order in which they were appended to the history.
C4_AppendOrder ==
  \A c \in Conns :
    LET M == MsgsOf(inbox[c])
        H == Get(rooms_messages, ws_room[c], <<>>)
    IN (NoDup(M) /\ \A k \in 1..Len(M) : \E n \in 1..Len(H) : H[n] = M[k]) =>
         \A i, j \in 1..Len(M) :
           i < j => \A a, b \in 1..Len(H) : (H[a] = M[i] /\ H[b] = M[j]) => a < b

\* ----------------------------------------------------------------- C5
\* C5: no message event reaches a client twice.
C5_NoEventTwice == \A c \in Conns : NoDup(MsgsOf(inbox[c]))

\* ----------------------------------------------------------------- C6
\* C6: while none of a user's websockets has left, the devices of that user
\* produce one "entrou na sala" event: no client is sent it twice.
C6_OneJoinedEvent ==
  \A u \in Users :
    (\A d \in Conns : ws_user[d] = u => Live(d) /\ link[d] = "open") =>
       \A c \in Conns : Count(inbox[c], JoinedEvent(u)) <= 1

\* ----------------------------------------------------------------- C7
\* the websockets of user u whose handler has joined room r and has not
\* left it: the user's live connections in the room
LiveOf(r, u) ==
  {c \in Conns : /\ ws_room[c] = r /\ ws_user[c] = u
                 /\ pc[c] \in {"join_bcast", "replay", "recv", "bcast"}}

\* this step starts the broadcast of "saiu da sala" for user u in room r
LeftStarted(r, u) ==
  \E c \in Conns : ws_room[c] = r /\ cur[c] # LeftEvent(u) /\ cur'[c] = LeftEvent(u)

\* C7: a step in which a user's live connections in a room go from some to
\* none, while the room has a websocket to tell, starts the broadcast of the
\* "saiu da sala" event, and no other step starts one.
C7_LeftOnLastLeave ==
  [][ \A r \in Rooms, u \in Users :
        /\ (LiveOf(r, u) # {} /\ LiveOf(r, u)' = {}
              /\ Get(rooms_connections', r, {}) # {}) => LeftStarted(r, u)
        /\ LeftStarted(r, u) => (LiveOf(r, u) # {} /\ LiveOf(r, u)' = {}) ]_vars

\* ----------------------------------------------------------------- C8
\* C8: a kick, ban or destroy request is answered 403 exactly when the room
\* has a recorded owner and the caller is not that owner; a request answered
\* 403 changes nothing in the hub, in any websocket or in any request in
\* flight; a request on a room without a recorded owner is carried out.
C8_OwnerGate ==
  [][ /\ (resp' # resp /\ req' = req /\ resp'.kind \in {"kick", "ban", "destroy"}) =>
           /\ resp'.status = HTTP_FORBIDDEN <=>
                (Has(rooms_owner, resp'.room) /\ rooms_owner[resp'.room] # resp'.caller)
           /\ resp'.status \in {HTTP_FORBIDDEN, HTTP_OK}
           /\ resp'.status = HTTP_FORBIDDEN => UNCHANGED <<hub, sess, req, nmsg>>
      /\ \A i \in Reqs :
           (req[i].pc = "idle" /\ req'[i].pc # "idle") =>
              ~(Has(rooms_owner, req'[i].room)
                  /\ rooms_owner[req'[i].room] # req'[i].caller) ]_vars

\* a user who is not the owner was refused while a websocket of the room
\* was open, and that websocket is still open
C8_Witness ==
  /\ resp.status = HTTP_FORBIDDEN
  /\ Has(rooms_owner, resp.room) /\ rooms_owner[resp.room] # resp.caller
  /\ \E c \in Conns : ws_room[c] = resp.room /\ Live(c) /\ link[c] = "open"

Capacity == MaxOps - 2

\* C10: the history of a room never holds more events than the capacity.
C10_BoundedHistory ==
  \A r \in DOMAIN rooms_messages : Len(rooms_messages[r]) <= Capacity

\* ---------------------------------------------------------------- C11
\* C11: a websocket whose handler has ended is neither in a room's connection
\* set nor in a user's socket set.
C11_LeftAfterSessionEnd ==
  \A c \in Conns :
    pc[c] \in {"done", "crashed"} =>
      /\ \A r \in DOMAIN rooms_connections : c \notin rooms_connections[r]
      /\ \A r \in DOMAIN rooms_user_sockets :
           \A u \in DOMAIN rooms_user_sockets[r] : c \notin rooms_user_sockets[r][u]

\* ---------------------------------------------------------------- C12
\* C12: a broadcast loop in which a send has failed still ends by itself: it
\* ends having visited every websocket of the set, the failed ones are then
\* out of the room's connection set, the history is as it was, and the
\* handler that was fanning out a payload goes back to its receive loop.
C12_FailureIsolated ==
  [][ \A c \in Conns :
        (pc[c] \in PassPcs /\ dead[c] # {} /\ pc'[c] # pc[c]) =>
           /\ it[c].det \/ {t \in rooms_connections[ws_room[c]] : t > it[c].pos} = {}
           /\ Get(rooms_connections', ws_room[c], {}) \cap dead[c] = {}
           /\ rooms_messages' = rooms_messages
           /\ pc[c] = "bcast" => pc'[c] = "recv" ]_vars

\* ---------------------------------------------------------------- C13
\* C13: a step that takes a websocket out of a room's connection set also
\* takes it out of its user's socket set.
C13_EvictionLeaves ==
  [][ \A r \in (DOMAIN rooms_connections) \cap (DOMAIN rooms_connections'), d \in Conns :
        (d \in rooms_connections[r] /\ d \notin rooms_connections'[r]) =>
           d \notin Get(Get(rooms_user_sockets', r, EmptyDict), ws_user[d], {}) ]_vars

\* ---------------------------------------------------------------- C14
\* C14: whenever room_online answers for a room, it lists a user exactly
\* when a websocket of that user is in the room's connection set.
C14_Presence ==
  \A r \in Rooms, u \in Users :
    room_online(r).status = HTTP_OK =>
      (u \in room_online(r).users <=>
         \E c \in Get(rooms_connections, r, {}) : ws_user[c] = u)

\* ---------------------------------------------------------------- C15
\* the first place of event e in the sequence s
FirstAt(s, e) == Min({i \in 1..Len(s) : s[i] = e})

\* user u has used one websocket only, so that u's events are that websocket's
OneSocket(u) == Cardinality({d \in Conns : ws_user[d] = u}) = 1

\* of two payloads submitted by one websocket, every other websocket that has
\* been sent both was sent the earlier one first
SenderOrdered ==
  \A c \in Conns :
    LET M == MsgsOf(inbox[c]) IN
    \A i, j \in 1..Len(M) :
      (/\ M[i].user_id = M[j].user_id
       /\ OneSocket(M[i].user_id)
       /\ ws_user[c] # M[i].user_id
       /\ M[i].text[2] < M[j].text[2]) => FirstAt(M, M[i]) < FirstAt(M, M[j])

\* C15: of two payloads submitted by one websocket, every other websocket
\* that is sent both is sent the earlier one first; and a payload is taken
\* only by a handler that is in its receive loop, not in a fan-out.
C15_SenderOrder ==
  [][ /\ SenderOrdered'
      /\ nmsg' # nmsg =>
           \E c \in Conns : pc[c] = "recv" /\ pc'[c] # "recv"
                            /\ \A d \in Conns \ {c} : pc'[d] = pc[d] ]_vars

\* ---------------------------------------------------------------- C16
\* C16: a destroy request for a room id that nothing has created or
\* referenced is answered 404 and changes nothing in the hub.
C16_DestroyAbsent ==
  [][ (/\ resp' # resp /\ req' = req /\ resp'.kind = "destroy"
       /\ resp'.room \notin KnownRooms
       /\ \A c \in Conns : ws_room[c] # resp'.room) =>
         /\ resp'.status = HTTP_NOT_FOUND
         /\ UNCHANGED hub ]_vars

\* ---------------------------------------------------------------- C17
\* C17: a request for the page of a tombstoned room id is answered with a
\* redirect and changes nothing in the hub.
C17_PageOfDestroyedRoom ==
  [][ (resp' # resp /\ resp'.kind = "page" /\ resp'.room \in rooms_deleted) =>
         /\ resp'.status = HTTP_REDIRECT
         /\ UNCHANGED <<hub, sess, req>> ]_vars

\* the page of a room that new_room had created and that was then destroyed
\* was asked for and refused, and the room has no state
C17_Witness ==
  /\ resp.kind = "page" /\ resp.status = HTTP_REDIRECT
  /\ resp.room \in rooms_deleted /\ resp.room \in issued
  /\ ~Has(rooms_messages, resp.room) /\ ~Has(rooms_connections, resp.room)
  /\ ~Has(rooms_owner, resp.room)

\* ---------------------------------------------------------------- C18
\* C18: a tombstoned room id has no entry in the history, connection-set,
\* ban-set, user-socket and user-meta maps.
C18_NoStateForTombstoned ==
  \A r \in rooms_deleted :
    /\ ~Has(rooms_messages, r) /\ ~Has(rooms_connections, r)
    /\ ~Has(rooms_banned, r)
    /\ ~Has(rooms_user_sockets, r) /\ ~Has(rooms_user_meta, r)

\* ---------------------------------------------------------------------------
\* C19: the numeric close codes of the seven causes of a close (unauthenticated,
\* invalid room id, room tombstoned, banned, kicked, room destroyed, generic
\* server error) are pairwise distinguishable: two different causes never
\* close a websocket with the same code, so the code a websocket was closed
\* with belongs to exactly one cause.
C19_CodesDistinct ==
  \A c \in Conns :
    close_code[c] # CODE_NONE =>
      Cardinality({a \in Causes : CloseCodeFor(a) = close_code[c]}) = 1

\* ---------------------------------------------------------------------------
\* C20: every payload a websocket in its receive loop takes from an open
\* channel produces exactly one event, stamped with the sender, appended to
\* the history of the room and broadcast, and no payload ends the session
\* of its sender: the handler goes from the receive to the fan-out and from
\* the fan-out back to the receive.
C20_PayloadHandled ==
  [][\A c \in Conns :
       /\ (pc[c] = "recv" /\ link[c] = "open" /\ pc'[c] # "recv") =>
            /\ pc'[c] = "bcast"
            /\ Has(rooms_messages, ws_room[c])
            /\ Has(rooms_messages', ws_room[c])
            /\ Len(rooms_messages'[ws_room[c]]) = Len(rooms_messages[ws_room[c]]) + 1
            /\ rooms_messages'[ws_room[c]][Len(rooms_messages'[ws_room[c]])].user_id
                 = ws_user[c]
       /\ pc[c] = "bcast" => pc'[c] \in {"bcast", "recv"}]_vars

\* ---------------------------------------------------------------------------
\* C21: a websocket whose send does not complete holds a broadcast only for
\* a bounded time: whenever a broadcast loop is waiting for its send to a
\* websocket whose client has stopped reading, the loop eventually goes on
\* to the next websocket of the room or ends, and the websocket that does
\* not read is eventually out of the connection set of its room.
C21_StallBounded ==
  \A c, t \in Conns :
    (pc[c] \in PassPcs /\ it[c].pos = t /\ ~SendCompletes(t))
      ~> (/\ ~(pc[c] \in PassPcs /\ it[c].pos = t)
          /\ t \notin Get(rooms_connections, ws_room[t], {}))

\* ---------------------------------------------------------------------------
\* the event a step has appended to the history of room r
Appended(r) == rooms_messages'[r][Len(rooms_messages'[r])]

\* this step is a receive loop appending one event to the history of room r
AppendStep(r) ==
  /\ nmsg' # nmsg
  /\ Has(rooms_messages, r) /\ Has(rooms_messages', r)
  /\ Len(rooms_messages'[r]) = Len(rooms_messages[r]) + 1

\* the user_id of the appended event is the user of the session of a websocket
\* of the room that was waiting in its receive loop
StampedBySession(r) ==
  \E c \in Conns :
    /\ pc[c] = "recv" /\ link[c] = "open" /\ ws_room[c] = r
    /\ Appended(r).user_id = ws_user[c]

\* C22 (as stated): an event appended to a history carries the identity of
\* the session that submitted it whatever identity fields the payload has,
\* and a payload that differs from the submitted one only in those fields
\* produces the identical event.
C22_IdentityBlind ==
  [][\A r \in Rooms :
       AppendStep(r) =>
         /\ StampedBySession(r)
         /\ \A p \in Payloads(nmsg'), k \in Claims :
              Classify(p, Appended(r).user_id) = Appended(r) =>
                Classify([p EXCEPT !.claim = k], Appended(r).user_id) = Appended(r)]_vars

\* C22 (amended): an event appended to a history carries the identity of the
\* session that submitted it whatever identity fields the payload has; a
\* payload that differs from the submitted one only in those fields produces
\* the identical event when the event was built from a recognised type, and
\* when the event is the fallback message it produces an event of the same
\* type and user_id, whose text is that other payload.
C22_Stamped ==
  [][\A r \in Rooms :
       AppendStep(r) =>
         /\ StampedBySession(r)
         /\ \A p \in Payloads(nmsg'), k \in Claims :
              Classify(p, Appended(r).user_id) = Appended(r) =>
                LET q == [p EXCEPT !.claim = k]
                    e == Classify(q, Appended(r).user_id)
                IN /\ e.type = Appended(r).type
                   /\ e.user_id = Appended(r).user_id
                   /\ IF Appended(r).text[1] = "payload"
                        THEN e = Appended(r)
                        ELSE e.text = <<"raw", q>>]_vars

\* a history holds a fallback message whose payload names a user other than
\* its sender, and an event of a recognised type other than message
C22_Witness ==
  \E r \in DOMAIN rooms_messages :
    \E i, j \in 1..Len(rooms_messages[r]) :
      /\ rooms_messages[r][i].text[1] = "raw"
      /\ rooms_messages[r][i].text[2].claim \notin {NoUser, rooms_messages[r][i].user_id}
      /\ rooms_messages[r][j].type \in RecognizedTypes \ {"message"}

\* ---------------------------------------------------------------------------
\* this step is the album handler op answering
AlbumStep(op) == nops' # nops /\ now' = now /\ aresp'.op = op

\* C23: a share token that share_album has issued gives access to the shared
\* album view exactly as long as it is in album_shares and its expiry is not
\* in the past, and any other token gives none; share_album issues a token
\* only to the owner of the album, expiring 1, 24 or 168 hours from now;
\* revoke_share_token by the owner of the album answers 200 and removes the
\* token, which from then on gives no access; by any other user it answers
\* 404 and leaves album_shares as it was.
C23_ShareLifecycle ==
  [][\A t \in 0..(ntok + 1), u \in Users :
       /\ t <= ntok' =>
            (view_shared_album(t)' = HTTP_OK <=>
               (t \in DOMAIN album_shares' /\ album_shares'[t].expires_at >= now'))
       /\ (AlbumStep("share") /\ aresp'.status = HTTP_OK
             /\ aresp'.token = t /\ aresp'.caller = u) =>
            /\ t \notin 0..ntok
            /\ t \in DOMAIN album_shares'
            /\ albums[album_shares'[t].album_id] = u
            /\ album_shares'[t].expires_at - now \in TTL_HOURS
            /\ view_shared_album(t)' = HTTP_OK
       /\ (AlbumStep("revoke") /\ aresp'.token = t /\ aresp'.caller = u) =>
            IF t \in DOMAIN album_shares /\ albums[album_shares[t].album_id] = u
              THEN /\ aresp'.status = HTTP_OK
                   /\ t \notin DOMAIN album_shares'
                   /\ view_shared_album(t)' = HTTP_REDIRECT
              ELSE /\ aresp'.status = HTTP_NOT_FOUND
                   /\ album_shares' = album_shares ]_vars

\* the owner of an album has revoked a token that was giving access
C23_Witness ==
  /\ aresp.op = "revoke" /\ aresp.status = HTTP_OK
  /\ aresp.token \in 1..ntok
  /\ aresp.token \notin DOMAIN album_shares
  /\ view_shared_album(aresp.token) = HTTP_REDIRECT

\* ---------------------------------------------------------------------------
\* C24: the code a handler runs from its receive loop on, the append and
\* fan-out of a payload and the leave of either except clause with its
\* "saiu da sala" broadcast, never ends with an exception that nothing
\* handles, whatever was done to the room or to the websocket before: a
\* handler in its receive loop, in a fan-out or in the broadcast of its leave
\* does not crash.
C24_TeardownSafe ==
  [][\A c \in Conns :
       pc[c] \in {"recv", "bcast", "leave_bcast", "err_bcast"} => pc'[c] # "crashed"]_vars

\* ---------------------------------------------------------------------------
\* the set of websockets the broadcast loop of c is iterating
Iterated(c) == IF it[c].det THEN it[c].obj ELSE Get(rooms_connections, ws_room[c], {})

\* C25: a broadcast loop iterates a set that nothing changes while the loop
\* is in it: no step of another handler adds a websocket to the set or takes
\* one out of it, and the loop leaves the set only at its end, having
\* visited every websocket of it, never through an exception.
C25_FixedSnapshot ==
  [][\A c \in Conns :
       pc[c] \in PassPcs =>
         /\ pc'[c] = pc[c] => Iterated(c)' = Iterated(c)
         /\ pc'[c] # pc[c] =>
              /\ Cardinality(Iterated(c)) = it[c].size
              /\ {t \in Iterated(c) : t > it[c].pos} = {}]_vars

\* ---------------------------------------------------------------------------
\* this step is websocket c being turned away at the session lookup or at the
\* room id check
Rejected(c) ==
  pc[c] = "new" /\ pc'[c] # "new" /\ (ws_user'[c] = NoUser \/ ws_room'[c] = BadRoom)

\* C26: a websocket that fails the session lookup or the room id check is
\* closed (with 1008) and its handler has ended, no map of the hub has
\* changed, no client has been sent anything, no broadcast loop has started,
\* and the websocket is in no connection set and in no user's socket set,
\* then and ever after.
C26_RejectedTouchesNothing ==
  [][\A c \in Conns :
       /\ Rejected(c) =>
            /\ pc'[c] = "done"
            /\ link'[c] = "srv_closed"
            /\ close_code'[c] = CODE_POLICY
            /\ UNCHANGED <<hub, inbox, it, cur, dead, rp>>
       /\ (pc'[c] = "done" /\ close_code'[c] = CODE_POLICY) =>
            /\ \A r \in DOMAIN rooms_connections' : c \notin rooms_connections'[r]
            /\ \A r \in DOMAIN rooms_user_sockets' :
                 \A u \in DOMAIN rooms_user_sockets'[r] : c \notin rooms_user_sockets'[r][u]]_vars

\* a websocket was turned away while a room had a member and a history
C26_Witness ==
  \E c \in Conns, r \in DOMAIN rooms_connections :
    /\ pc[c] = "done" /\ close_code[c] = CODE_POLICY
    /\ rooms_connections[r] # {}
    /\ Get(rooms_messages, r, <<>>) # <<>>

\* ---------------------------------------------------------------------------
\* this step is a handler that calls ensure_room(r): the room page, a join
\* attempt, or a kick or ban that is not refused
EnsureStep(r) ==
  \/ resp' # resp /\ resp'.kind = "page" /\ resp'.room = r /\ resp'.status = HTTP_OK
  \/ \E c \in Conns, u \in Users : JoinAttempt(c, u, r)
  \/ /\ resp' # resp /\ req' = req /\ resp'.kind \in {"kick", "ban"}
     /\ resp'.room = r /\ resp'.status = HTTP_OK
  \/ \E i \in Reqs : /\ req[i].pc = "idle" /\ req'[i].pc = "closing"
                     /\ req'[i].kind \in {"kick", "ban"} /\ req'[i].room = r

\* the websocket that joins room r in this step, the user that is banned
Joiner(r) == {c \in Conns : \E u \in Users : JoinAttempt(c, u, r)}

BanTarget(r) ==
  {u \in Users : \/ resp' # resp /\ resp'.kind = "ban" /\ resp'.room = r /\ resp'.target = u
                 \/ \E i \in Reqs : /\ req[i].pc = "idle" /\ req'[i].kind = "ban"
                                    /\ req'[i].room = r /\ req'[i].target = u}

\* C27: a handler that references a room that is not tombstoned (the room
\* page, a join, a kick or a ban) leaves the room with an entry in each of
\* the five maps; what the room had in a map it still has: the history is the
\* same list, the connection set and the per-user socket sets lose nothing
\* and gain at most the websocket that joins, the ban set loses nothing and
\* gains at most the user that is banned; an entry that was absent starts
\* empty.
C27_EnsureIdempotent ==
  [][\A r \in Rooms :
       (EnsureStep(r) /\ r \notin rooms_deleted) =>
         /\ Has(rooms_messages', r) /\ Has(rooms_connections', r) /\ Has(rooms_banned', r)
         /\ Has(rooms_user_sockets', r) /\ Has(rooms_user_meta', r)
         /\ rooms_messages'[r] = Get(rooms_messages, r, <<>>)
         /\ Get(rooms_connections, r, {}) \subseteq rooms_connections'[r]
         /\ rooms_connections'[r] \ Get(rooms_connections, r, {}) \subseteq Joiner(r)
         /\ Get(rooms_banned, r, {}) \subseteq rooms_banned'[r]
         /\ rooms_banned'[r] \ Get(rooms_banned, r, {}) \subseteq BanTarget(r)
         /\ \A u \in Users :
              LET old == Get(Get(rooms_user_sockets, r, EmptyDict), u, {})
                  new == Get(rooms_user_sockets'[r], u, {})
              IN old \subseteq new /\ new \ old \subseteq Joiner(r)]_vars

\* the room page was served for a room that had a history and a member, and
\* the room still has them
C27_Witness ==
  /\ resp.kind = "page" /\ resp.status = HTTP_OK
  /\ Get(rooms_messages, resp.room, <<>>) # <<>>
  /\ Get(rooms_connections, resp.room, {}) # {}

\* ---------------------------------------------------------------------------
IsPrefix(s, t) == Len(s) <= Len(t) /\ \A i \in 1..Len(s) : t[i] = s[i]

\* C28: every step that is not of destroy_room leaves each room with the
\* history it had as a prefix of the history it has, every event of it
\* unchanged; the history grows by at most one event in a step, and only in
\* a step in which a receive loop has taken a payload.
C28_AppendOnly ==
  [][\A r \in Rooms :
       ~ModStep("destroy") =>
         LET old == Get(rooms_messages, r, <<>>)
             new == Get(rooms_messages', r, <<>>)
         IN /\ IsPrefix(old, new)
            /\ Len(new) <= Len(old) + 1
            /\ Len(new) = Len(old) + 1 => nmsg' = nmsg + 1]_vars

\* a kick or a ban has been carried out on a room that has a history
C28_Witness ==
  /\ resp.kind \in {"kick", "ban"} /\ resp.status = HTTP_OK
  /\ Len(Get(rooms_messages, resp.room, <<>>)) >= 1

\* ---------------------------------------------------------------------------
\* what the hub holds for room r
RoomState(r) ==
  [messages |-> IF Has(rooms_messages, r) THEN <<rooms_messages[r]>> ELSE <<>>,
   connections |-> IF Has(rooms_connections, r) THEN <<rooms_connections[r]>> ELSE <<>>,
   banned |-> IF Has(rooms_banned, r) THEN <<rooms_banned[r]>> ELSE <<>>,
   user_sockets |-> IF Has(rooms_user_sockets, r) THEN <<rooms_user_sockets[r]>> ELSE <<>>,
   user_meta |-> IF Has(rooms_user_meta, r) THEN <<rooms_user_meta[r]>> ELSE <<>>,
   owner |-> IF Has(rooms_owner, r) THEN <<rooms_owner[r]>> ELSE <<>>,
   deleted |-> r \in rooms_deleted]

\* this step is code of a handler that was called for room r: the handler of
\* a websocket of r, a moderation handler or the room page answering for r
\* (also when it repeats the answer before), a moderation handler of r
\* resuming, or new_room issuing r
ActsOn(r) ==
  \/ \E c \in Conns : /\ ws_room'[c] = r
                      /\ <<pc[c], it[c], rp[c]>> # <<pc'[c], it'[c], rp'[c]>>
  \/ resp' # resp /\ resp'.room = r
  \/ /\ nops' # nops /\ sess' = sess /\ req' = req /\ issued' = issued
     /\ resp'.room = r
  \/ \E i \in Reqs : req'[i] # req[i] /\ r \in {req[i].room, req'[i].room}
  \/ r \in issued' \ issued

\* C29: a client is sent an event only by a broadcast loop or a replay of a
\* handler of its own room: the event a broadcast sends was submitted by (or
\* is about) a websocket of that room, the event a replay sends is in that
\* room's history; and a step changes what the hub holds (history,
\* connections, ban set, socket sets, owner, tombstone) for no room other
\* than the one its handler was called for.
C29_RoomIsolation ==
  [][ /\ \A t \in Conns :
           inbox'[t] # inbox[t] =>
             /\ Len(inbox'[t]) = Len(inbox[t]) + 1
             /\ \/ \E c \in Conns : /\ pc'[c] \in PassPcs /\ it'[c].pos = t
                                    /\ cur'[c] = inbox'[t][Len(inbox'[t])]
                                    /\ ws_room'[c] = ws_room'[t]
                \/ /\ pc'[t] = "replay"
                   /\ \E L \in {IF rp'[t].det THEN rp'[t].obj
                                ELSE Get(rooms_messages', ws_room'[t], <<>>)} :
                        /\ rp'[t].i \in 1..Len(L)
                        /\ L[rp'[t].i] = inbox'[t][Len(inbox'[t])]
      /\ \A r \in Rooms : RoomState(r)' # RoomState(r) => ActsOn(r)
      /\ \A r1, r2 \in Rooms :
           (RoomState(r1)' # RoomState(r1) /\ RoomState(r2)' # RoomState(r2)) => r1 = r2 ]_vars

\* two rooms have a member each, one of them has a history, and the member
\* of the other has been sent no event of it
C29_Witness ==
  \E r1, r2 \in Rooms, c \in Conns :
    /\ r1 # r2
    /\ Get(rooms_connections, r1, {}) # {}
    /\ Get(rooms_messages, r1, <<>>) # <<>>
    /\ c \in Get(rooms_connections, r2, {})
    /\ pc[c] = "recv"
    /\ MsgsOf(inbox[c]) = <<>>
    /\ Get(rooms_messages, r2, <<>>) = <<>>

\* ---------------------------------------------------------------------------
\* the events a live broadcast (not a replay) has sent to websocket t are
\* those of its inbox; the history of the room of t, while the room exists
HistoryOf(t) == Get(rooms_messages, ws_room[t], <<>>)

\* C30: the event a receive loop fans out is in the history of its room
\* before the first send: in every state in which the room of a websocket
\* has not been destroyed, every event of a user that the websocket has been
\* sent is in the history of the room, and so is the event a fan-out is
\* sending; no "entrou na sala" or "saiu da sala" event is in any history.
C30_AppendPrecedesDelivery ==
  /\ \A t \in Conns :
       (ws_room[t] \in Rooms /\ ws_room[t] \notin rooms_deleted) =>
         /\ \A i \in 1..Len(inbox[t]) :
              inbox[t][i].type # "system" =>
                 \E j \in 1..Len(HistoryOf(t)) : HistoryOf(t)[j] = inbox[t][i]
         /\ (pc[t] = "bcast" /\ ~it[t].det) =>
              \E j \in 1..Len(HistoryOf(t)) : HistoryOf(t)[j] = cur[t]
  /\ \A r \in DOMAIN rooms_messages :
       \A j \in 1..Len(rooms_messages[r]) : rooms_messages[r][j].type # "system"

\* a websocket of a room that exists has been sent an "entrou na sala" event
\* and, by a fan-out, an event of a user
C30_Witness ==
  \E t \in Conns :
    /\ ws_room[t] \in Rooms /\ ws_room[t] \notin rooms_deleted
    /\ \E i \in 1..Len(inbox[t]) : inbox[t][i].type = "system"
    /\ \E i \in 1..Len(inbox[t]) : inbox[t][i].type # "system"
    /\ Len(HistoryOf(t)) >= 1

====
